---- MODULE Spec2Model ----
(***************************************************************************)
(* Model of devenspear/disruption-intel's three YouTube-transcript         *)
(* adapters:                                                               *)
(*   "api"    src/api/transcript.py           (serverless handler)         *)
(*   "script" src/scripts/fetch-transcript.py (command-line script)        *)
(*   "app"    src/transcript-service/app.py   (Flask server)               *)
(* Every worker is one process running one adapter.  A request goes        *)
(* through: module import (Boot), arrival of the raw input (Receive),      *)
(* extraction and check of the identifier (Extract), the call of the       *)
(* captions library (Enter), the loop over the returned entries            *)
(* (AppendEntry / IterRaise), the construction of the result record        *)
(* (Build) and its emission (Emit).                                        *)
(* A Python str is a sequence of one-character strings, a dict is a        *)
(* record, None is the value PyNone.                                       *)
(***************************************************************************)
EXTENDS Integers, Sequences, FiniteSets, TLC

VARIABLES installed, library, adapter, pc, HAS_TRANSCRIPT_API, request,
          video_id, outcome, idx, segments, result, resp, fetchCalls, exc

vars == <<installed, library, adapter, pc, HAS_TRANSCRIPT_API, request,
          video_id, outcome, idx, segments, result, resp, fetchCalls, exc>>

\* ------------------------------------------------------------------ bounds
NumWorkers == 2
MaxEntries == 2
MaxTextLen == 2
MaxCalls == 3

Workers == 1..NumWorkers

\* ------------------------------------------------------- python primitives
PyNone == "<None>"

Whitespace == {" "}

Chars == {"a", " "}

\* `not x` for x a str or None
Falsy(x) == x = PyNone \/ x = ""

RECURSIVE JoinTrailing(_, _)
\* a join that also puts the separator after the last part
JoinTrailing(sep, parts) ==
    IF parts = <<>> THEN <<>>
    ELSE Head(parts) \o sep \o JoinTrailing(sep, Tail(parts))

RECURSIVE Join(_, _)
\* sep.join(parts): the parts in order with sep between neighbours
Join(sep, parts) ==
    IF parts = <<>> THEN <<>>
    ELSE IF Len(parts) = 1 THEN Head(parts)
    ELSE Head(parts) \o sep \o Join(sep, Tail(parts))

RECURSIVE SkipSpace(_)
\* str.split() with no separator first skips a run of whitespace ...
SkipSpace(s) ==
    IF s # <<>> /\ Head(s) \in Whitespace THEN SkipSpace(Tail(s)) ELSE s

RECURSIVE TakeWord(_)
\* ... then takes the characters up to the next whitespace as one token
TakeWord(s) ==
    IF s = <<>> \/ Head(s) \in Whitespace THEN <<>>
    ELSE <<Head(s)>> \o TakeWord(Tail(s))

RECURSIVE Split(_)
\* str.split(): the list of the maximal runs of non-whitespace characters
Split(s) ==
    LET t == SkipSpace(s) IN
    IF t = <<>> THEN <<>>
    ELSE LET w == TakeWord(t) IN
         <<w>> \o Split(SubSeq(t, Len(w) + 1, Len(t)))

\* [s["text"] for s in segments]
TextsOf(segs) == [i \in 1..Len(segs) |-> segs[i].text]

\* ------------------------------------------------------------ the inputs
VideoIds == {"abc123", "xyz789"}

RECURSIVE SeqsUpTo(_, _)
SeqsUpTo(S, n) ==
    IF n = 0 THEN {<<>>}
    ELSE LET shorter == SeqsUpTo(S, n - 1) IN
         shorter \cup {Append(q, x) : q \in {r \in shorter : Len(r) = n - 1}, x \in S}

Texts == SeqsUpTo(Chars, MaxTextLen)

\* start and duration in tenths of a second
Starts == {0, 25}

Durations == {10}

EntrySet == [start : Starts, duration : Durations, text : Texts]

Transcripts == SeqsUpTo(EntrySet, MaxEntries)

Exceptions == [msg : {"Video unavailable", "Subtitles are disabled"},
               type : {"VideoUnavailable", "TranscriptsDisabled"}]

NoExc == [msg |-> "", type |-> ""]

\* What one call of the captions library does: api.fetch returns the entries,
\* api.fetch raises, or the iteration over the returned object raises after
\* it has yielded the entries.
Returns(es) == [kind |-> "returns", entries |-> es, exc |-> NoExc]

Raises(e) == [kind |-> "raises", entries |-> <<>>, exc |-> e]

YieldsThenRaises(es, e) == [kind |-> "yields_then_raises", entries |-> es, exc |-> e]

NoOutcome == [kind |-> "none", entries |-> <<>>, exc |-> NoExc]

FullCatalog ==
    {Returns(es) : es \in Transcripts}
    \cup {Raises(e) : e \in Exceptions}
    \cup {YieldsThenRaises(es, e) :
            es \in {t \in Transcripts : Len(t) <= 1}, e \in Exceptions}

Hello == <<"H", "e", "l", "l", "o">>

World == <<"w", "o", "r", "l", "d">>

HelloWorld == << [start |-> 0, duration |-> 25, text |-> Hello],
                 [start |-> 25, duration |-> 10, text |-> World] >>

SmallCatalog ==
    {Returns(HelloWorld), Returns(<<>>),
     Raises([msg |-> "Video unavailable", type |-> "VideoUnavailable"]),
     YieldsThenRaises(SubSeq(HelloWorld, 1, 1),
                      [msg |-> "Subtitles are disabled", type |-> "TranscriptsDisabled"])}

\* the outcomes a call of the library can have in this run
Catalog == IF library = "full" THEN FullCatalog ELSE SmallCatalog

\* ------------------------------------------------------- the result dicts
Adapters == {"api", "script", "app"}

\* the dict returned when the library could not be imported
ImportErrorRecord ==
    [success |-> FALSE,
     error |-> "youtube-transcript-api not installed",
     errorType |-> "ImportError"]

\* one element of `segments`, built from one entry of the transcript
SegmentOf(entry) ==
    [start |-> entry.start, duration |-> entry.duration, text |-> entry.text]

api_success(vid, segs) ==
    LET full_text == Join(<<" ">>, TextsOf(segs))
        word_count == Len(Split(full_text))
    IN [success |-> TRUE, videoId |-> vid, segments |-> segs,
        fullText |-> full_text, wordCount |-> word_count,
        language |-> "en", source |-> "youtube_auto"]

script_success(vid, segs) ==
    LET full_text == Join(<<" ">>, TextsOf(segs))
        word_count == Len(Split(full_text))
    IN [success |-> TRUE, videoId |-> vid, segments |-> segs,
        fullText |-> full_text, wordCount |-> word_count,
        language |-> "en", source |-> "youtube_auto"]

app_success(vid, segs) ==
    LET full_text == Join(<<" ">>, TextsOf(segs))
        word_count == Len(Split(full_text))
    IN [success |-> TRUE, videoId |-> vid, segments |-> segs,
        fullText |-> full_text, wordCount |-> word_count,
        language |-> "en", source |-> "youtube_auto"]

SuccessRecord(a, vid, segs) ==
    CASE a = "api" -> api_success(vid, segs)
      [] a = "script" -> script_success(vid, segs)
      [] a = "app" -> app_success(vid, segs)

\* an except clause that reports the class of the handler, not of e
api_error_untyped(vid, e) ==
    [success |-> FALSE, videoId |-> vid, error |-> e.msg, errorType |-> "Exception"]

\* except Exception as e: str(e) is the message, type(e).__name__ the class
api_error(vid, e) ==
    [success |-> FALSE, videoId |-> vid, error |-> e.msg, errorType |-> e.type]

script_error(vid, e) ==
    [success |-> FALSE, videoId |-> vid, error |-> e.msg, errorType |-> e.type]

app_error(vid, e) ==
    [success |-> FALSE, videoId |-> vid, error |-> e.msg, errorType |-> e.type]

ErrorRecord(a, vid, e) ==
    CASE a = "api" -> api_error(vid, e)
      [] a = "script" -> script_error(vid, e)
      [] a = "app" -> app_error(vid, e)

NoResult == [none |-> TRUE]

\* ---------------------------------------------------------- the requests
\* kind "absent": no videoId parameter / field / argument;
\* kind "value": the parameter / field / argument is given, with `value`;
\* the other kinds are POST bodies: no body, a body that is not JSON, and a
\* JSON document that is not an object (falsy: [], 0, null; truthy: [1], 5).
NoRequest == [method |-> "", kind |-> "", value |-> ""]

Given == {[kind |-> "absent", value |-> ""]}
         \cup {[kind |-> "value", value |-> v] : v \in VideoIds \cup {""}}

Bodies(kinds) == {[kind |-> k, value |-> ""] : k \in kinds}

Req(m, in) == [method |-> m, kind |-> in.kind, value |-> in.value]

\* The bodies request.get_json() itself rejects (no body, not JSON) never
\* reach the code of get_transcript: they are not requests of "app".
RequestsOf(a) ==
    CASE a = "api" ->
           {Req("GET", in) : in \in Given}
           \cup {Req("POST", in) : in \in Given \cup Bodies({"empty_body",
                   "invalid_json", "nonobject_falsy", "nonobject_truthy"})}
      [] a = "app" ->
           {Req("GET", in) : in \in Given}
           \cup {Req("POST", in) : in \in Given \cup Bodies({"nonobject_falsy",
                   "nonobject_truthy"})}
      [] a = "script" -> {Req("ARGV", in) : in \in Given}

\* data.get("videoId") on a value that is no dict raises AttributeError,
\* outside every try block
RaisesAttributeError(a, req) ==
    /\ req.method = "POST"
    /\ \/ a = "api" /\ req.kind \in {"nonobject_falsy", "nonobject_truthy"}
       \/ a = "app" /\ req.kind = "nonobject_truthy"

\* the identifier as the adapter reads it
ExtractVideoId(a, req) ==
    CASE a = "api" /\ req.method = "GET" ->
           \* parse_qs drops a parameter whose value is blank
           IF req.kind = "value" /\ req.value # "" THEN req.value ELSE PyNone
      [] a = "api" /\ req.method = "POST" ->
           IF req.kind = "value" THEN req.value ELSE PyNone
      [] a = "app" ->
           IF req.kind = "value" THEN req.value ELSE PyNone
      [] a = "script" ->
           IF req.kind = "value" THEN req.value ELSE PyNone

\* the adapter's check before it calls the normalization
RejectsRequest(a, req) ==
    CASE a = "script" -> req.kind = "absent"
      [] OTHER -> Falsy(ExtractVideoId(a, req))

\* ---------------------------------------------------------- the responses
ContentTypeJson == <<"Content-Type", "application/json">>

AllowAnyOrigin == <<"Access-Control-Allow-Origin", "*">>

NoResp == [sent |-> FALSE, status |-> 0, exit |-> 0, headers |-> {}, body |-> NoResult]

Http(status, headers, body) ==
    [sent |-> TRUE, status |-> status, exit |-> 0, headers |-> headers, body |-> body]

Stdout(code, body) ==
    [sent |-> TRUE, status |-> 0, exit |-> code, headers |-> {}, body |-> body]

MissingResponse(a, req) ==
    CASE a = "api" /\ req.method = "GET" ->
           Http(400, {ContentTypeJson},
                [success |-> FALSE, error |-> "videoId parameter required"])
      [] a = "api" /\ req.method = "POST" ->
           Http(400, {ContentTypeJson},
                [success |-> FALSE, error |-> "videoId required in request body"])
      [] a = "app" ->
           Http(400, {ContentTypeJson, AllowAnyOrigin},
                [success |-> FALSE, error |-> "videoId parameter required"])
      [] a = "script" ->
           Stdout(1, [success |-> FALSE, error |-> "Video ID required"])

ResultResponse(a, res) ==
    CASE a = "api" ->
           Http(IF res.success THEN 200 ELSE 400, {ContentTypeJson, AllowAnyOrigin}, res)
      [] a = "app" ->
           Http(IF res.success THEN 200 ELSE 400, {ContentTypeJson, AllowAnyOrigin}, res)
      [] a = "script" -> Stdout(0, res)

\* ------------------------------------------------------------- the state
TypeOK ==
    /\ installed \in BOOLEAN
    /\ library \in {"full", "small"}
    /\ adapter \in [Workers -> Adapters]
    /\ pc \in [Workers -> {"off", "start", "boot", "idle", "recv", "call", "iter",
                           "return", "done", "crashed"}]
    /\ HAS_TRANSCRIPT_API \in [Workers -> BOOLEAN]
    /\ video_id \in [Workers -> VideoIds \cup {"", PyNone}]
    /\ \A w \in Workers : outcome[w].kind \in {"none", "returns", "raises",
                                                "yields_then_raises"}
    /\ idx \in [Workers -> 0..(MaxEntries + 1)]
    /\ fetchCalls \in [Workers -> Nat]
    /\ exc \in [Workers -> {"", "ImportError", "AttributeError"}]

InitWith(lib, started) ==
    /\ installed \in BOOLEAN
    /\ library = lib
    /\ \E a \in Adapters : adapter = [w \in Workers |-> a]
    /\ pc = [w \in Workers |-> IF w \notin started THEN "off"
                               ELSE IF adapter[w] = "script" THEN "start"
                               ELSE "boot"]
    /\ HAS_TRANSCRIPT_API = [w \in Workers |-> FALSE]
    /\ request = [w \in Workers |-> NoRequest]
    /\ video_id = [w \in Workers |-> PyNone]
    /\ outcome = [w \in Workers |-> NoOutcome]
    /\ idx = [w \in Workers |-> 0]
    /\ segments = [w \in Workers |-> <<>>]
    /\ result = [w \in Workers |-> NoResult]
    /\ resp = [w \in Workers |-> NoResp]
    /\ fetchCalls = [w \in Workers |-> 0]
    /\ exc = [w \in Workers |-> ""]

\* one process of one adapter, every transcript and failure of the library
Init == InitWith("full", {1})

\* every worker a process of the same deployment, a small catalog
InitConc == InitWith("small", Workers)

\* ----------------------------------------------------------- the actions
\* The script is started with its arguments, before it imports anything.
Launch(w) ==
    /\ pc[w] = "start"
    /\ adapter[w] = "script"
    /\ \E req \in RequestsOf("script") : request' = [request EXCEPT ![w] = req]
    /\ pc' = [pc EXCEPT ![w] = "boot"]
    /\ UNCHANGED <<installed, library, adapter, HAS_TRANSCRIPT_API, video_id,
                   outcome, idx, segments, result, resp, fetchCalls, exc>>

\* where the module goes once it is imported: the servers wait for a
\* request, the script runs its main block
Imported(a) == IF a = "script" THEN "recv" ELSE "idle"

\* The module is imported.  "api" guards the import of the library and
\* records its failure in HAS_TRANSCRIPT_API; "script" and "app" import it
\* unguarded, so its ImportError ends the process.
Boot(w) ==
    /\ pc[w] = "boot"
    /\ IF adapter[w] = "api"
       THEN /\ HAS_TRANSCRIPT_API' = [HAS_TRANSCRIPT_API EXCEPT ![w] = installed]
            /\ pc' = [pc EXCEPT ![w] = Imported(adapter[w])]
            /\ exc' = exc
       ELSE /\ HAS_TRANSCRIPT_API' = HAS_TRANSCRIPT_API
            /\ pc' = [pc EXCEPT ![w] = IF installed THEN Imported(adapter[w])
                                                   ELSE "crashed"]
            /\ exc' = [exc EXCEPT ![w] = IF installed THEN "" ELSE "ImportError"]
    /\ UNCHANGED <<installed, library, adapter, request, video_id, outcome, idx,
                   segments, result, resp, fetchCalls>>

\* A request arrives at a server.
Receive(w) ==
    /\ pc[w] = "idle"
    /\ adapter[w] \in {"api", "app"}
    /\ \E req \in RequestsOf(adapter[w]) : request' = [request EXCEPT ![w] = req]
    /\ pc' = [pc EXCEPT ![w] = "recv"]
    /\ UNCHANGED <<installed, library, adapter, HAS_TRANSCRIPT_API, video_id,
                   outcome, idx, segments, result, resp, fetchCalls, exc>>

\* The adapter reads the identifier and checks it: do_GET / do_POST up to the
\* call of fetch_transcript, get_transcript up to its try, __main__ up to
\* the call of fetch_transcript.
Extract(w) ==
    /\ pc[w] = "recv"
    /\ IF RaisesAttributeError(adapter[w], request[w])
       THEN /\ pc' = [pc EXCEPT ![w] = "crashed"]
            /\ exc' = [exc EXCEPT ![w] = "AttributeError"]
            /\ UNCHANGED <<video_id, resp>>
       ELSE /\ video_id' = [video_id EXCEPT ![w] = ExtractVideoId(adapter[w], request[w])]
            /\ exc' = exc
            /\ IF RejectsRequest(adapter[w], request[w])
               THEN /\ resp' = [resp EXCEPT ![w] = MissingResponse(adapter[w], request[w])]
                    /\ pc' = [pc EXCEPT ![w] = "done"]
               ELSE /\ resp' = resp
                    /\ pc' = [pc EXCEPT ![w] = "call"]
    /\ UNCHANGED <<installed, library, adapter, HAS_TRANSCRIPT_API, request,
                   outcome, idx, segments, result, fetchCalls>>

\* fetch_transcript of "api" returns at once when the library is not there.
Unavailable(w) ==
    /\ pc[w] = "call"
    /\ adapter[w] = "api"
    /\ ~HAS_TRANSCRIPT_API[w]
    /\ result' = [result EXCEPT ![w] = ImportErrorRecord]
    /\ pc' = [pc EXCEPT ![w] = "return"]
    /\ UNCHANGED <<installed, library, adapter, HAS_TRANSCRIPT_API, request,
                   video_id, outcome, idx, segments, resp, fetchCalls, exc>>

\* an except clause that calls the library again
FetchFailedRetry(w, e) ==
    /\ result' = result
    /\ pc' = [pc EXCEPT ![w] = "call"]

\* what follows a call of the library that raised: the except clause returns
FetchFailed(w, e) ==
    /\ result' = [result EXCEPT ![w] = ErrorRecord(adapter[w], video_id[w], e)]
    /\ pc' = [pc EXCEPT ![w] = "return"]

\* api = YouTubeTranscriptApi(); transcript = api.fetch(video_id)
Invoke(w) ==
    /\ pc[w] = "call"
    /\ adapter[w] = "api" => HAS_TRANSCRIPT_API[w]
    /\ fetchCalls[w] < MaxCalls
    /\ fetchCalls' = [fetchCalls EXCEPT ![w] = @ + 1]
    /\ \E o \in Catalog :
         /\ outcome' = [outcome EXCEPT ![w] = o]
         /\ IF o.kind = "raises"
            THEN FetchFailed(w, o.exc) /\ UNCHANGED <<idx, segments>>
            ELSE /\ pc' = [pc EXCEPT ![w] = "iter"]
                 /\ idx' = [idx EXCEPT ![w] = 0]
                 /\ segments' = [segments EXCEPT ![w] = <<>>]
                 /\ result' = result
    /\ UNCHANGED <<installed, library, adapter, HAS_TRANSCRIPT_API, request,
                   video_id, resp, exc>>

\* a loop that appends to one list shared by the workers
AppendEntryShared(w) ==
    /\ pc[w] = "iter"
    /\ idx[w] < Len(outcome[w].entries)
    /\ segments' = [v \in Workers |->
                      Append(segments[v], SegmentOf(outcome[w].entries[idx[w] + 1]))]
    /\ idx' = [idx EXCEPT ![w] = @ + 1]
    /\ UNCHANGED <<installed, library, adapter, pc, HAS_TRANSCRIPT_API, request,
                   video_id, outcome, result, resp, fetchCalls, exc>>

\* one turn of `for entry in transcript: segments.append({...})`
AppendEntry(w) ==
    /\ pc[w] = "iter"
    /\ idx[w] < Len(outcome[w].entries)
    /\ segments' = [segments EXCEPT ![w] =
                      Append(@, SegmentOf(outcome[w].entries[idx[w] + 1]))]
    /\ idx' = [idx EXCEPT ![w] = @ + 1]
    /\ UNCHANGED <<installed, library, adapter, pc, HAS_TRANSCRIPT_API, request,
                   video_id, outcome, result, resp, fetchCalls, exc>>

\* the iteration raises after its last entry
IterRaise(w) ==
    /\ pc[w] = "iter"
    /\ idx[w] = Len(outcome[w].entries)
    /\ outcome[w].kind = "yields_then_raises"
    /\ FetchFailed(w, outcome[w].exc)
    /\ UNCHANGED <<installed, library, adapter, HAS_TRANSCRIPT_API, request,
                   video_id, outcome, idx, segments, resp, fetchCalls, exc>>

\* the loop ends: full_text, word_count and the dict of the success
Build(w) ==
    /\ pc[w] = "iter"
    /\ idx[w] = Len(outcome[w].entries)
    /\ outcome[w].kind = "returns"
    /\ result' = [result EXCEPT ![w] = SuccessRecord(adapter[w], video_id[w], segments[w])]
    /\ pc' = [pc EXCEPT ![w] = "return"]
    /\ UNCHANGED <<installed, library, adapter, HAS_TRANSCRIPT_API, request,
                   video_id, outcome, idx, segments, resp, fetchCalls, exc>>

\* the adapter emits the dict it got
Emit(w) ==
    /\ pc[w] = "return"
    /\ resp' = [resp EXCEPT ![w] = ResultResponse(adapter[w], result[w])]
    /\ pc' = [pc EXCEPT ![w] = "done"]
    /\ UNCHANGED <<installed, library, adapter, HAS_TRANSCRIPT_API, request,
                   video_id, outcome, idx, segments, result, fetchCalls, exc>>

\* The servers go on to their next request with fresh locals; the script's
\* process has ended.
NextRequest(w) ==
    /\ pc[w] = "done"
    /\ adapter[w] # "script"
    /\ pc' = [pc EXCEPT ![w] = "idle"]
    /\ request' = [request EXCEPT ![w] = NoRequest]
    /\ video_id' = [video_id EXCEPT ![w] = PyNone]
    /\ outcome' = [outcome EXCEPT ![w] = NoOutcome]
    /\ idx' = [idx EXCEPT ![w] = 0]
    /\ segments' = [segments EXCEPT ![w] = <<>>]
    /\ result' = [result EXCEPT ![w] = NoResult]
    /\ resp' = [resp EXCEPT ![w] = NoResp]
    /\ fetchCalls' = [fetchCalls EXCEPT ![w] = 0]
    /\ UNCHANGED <<installed, library, adapter, HAS_TRANSCRIPT_API, exc>>

Next ==
    \E w \in Workers :
       \/ Launch(w)
       \/ Boot(w)
       \/ Receive(w)
       \/ Extract(w)
       \/ Unavailable(w)
       \/ Invoke(w)
       \/ AppendEntry(w)
       \/ IterRaise(w)
       \/ Build(w)
       \/ Emit(w)
       \/ NextRequest(w)

Spec == Init /\ [][Next]_vars

SpecConc == InitConc /\ [][Next]_vars

\* ------------------------------------------------------------ the claims
\* the normalization of worker w has returned its dict
Returned(w) == pc[w] \in {"return", "done"} /\ result[w] # NoResult

HttpAdapters == {"api", "app"}

RECURSIVE OffsetOf(_, _)
\* the number of characters before the i-th text in a string that holds
\* the texts in order with one character between neighbours
OffsetOf(texts, i) ==
    IF i = 1 THEN 0 ELSE OffsetOf(texts, i - 1) + Len(texts[i - 1]) + 1

\* full is the texts in order, neighbours separated by exactly one space
IsSpaceJoined(full, texts) ==
    LET n == Len(texts) IN
    /\ Len(full) = IF n = 0 THEN 0 ELSE OffsetOf(texts, n) + Len(texts[n])
    /\ \A i \in 1..n :
         /\ \A k \in 1..Len(texts[i]) : full[OffsetOf(texts, i) + k] = texts[i][k]
         /\ i < n => full[OffsetOf(texts, i) + Len(texts[i]) + 1] = " "

\* the number of places where a whitespace-delimited token starts
TokenCount(s) ==
    Cardinality({i \in 1..Len(s) :
                   s[i] \notin Whitespace /\ (i = 1 \/ s[i - 1] \in Whitespace)})

\* C1: for a non-empty videoId and a library call that returns N entries, the
\* result has success true, the N entries in order as its segments (start,
\* duration and text unchanged), fullText the texts joined by single spaces
\* and wordCount the number of whitespace-delimited tokens of fullText; for
\* N = 0, fullText is empty and wordCount is 0.
C1_SuccessResult ==
    \A w \in Workers :
       (Returned(w) /\ video_id[w] \in VideoIds /\ outcome[w].kind = "returns") =>
          LET r == result[w]
              es == outcome[w].entries
          IN /\ r.success = TRUE
             /\ r.videoId = video_id[w]
             /\ Len(r.segments) = Len(es)
             /\ \A i \in 1..Len(es) :
                  /\ r.segments[i].start = es[i].start
                  /\ r.segments[i].duration = es[i].duration
                  /\ r.segments[i].text = es[i].text
             /\ IsSpaceJoined(r.fullText, [i \in 1..Len(es) |-> es[i].text])
             /\ r.wordCount = TokenCount(r.fullText)
             /\ Len(es) = 0 => (r.fullText = <<>> /\ r.wordCount = 0)
             /\ pc[w] = "done" => resp[w].body = r

\* a run that returned two entries whose joined text has two tokens and a
\* run of more than one space
C1_Witness ==
    \E w \in Workers :
       /\ pc[w] = "done"
       /\ video_id[w] \in VideoIds
       /\ outcome[w].kind = "returns"
       /\ Len(resp[w].body.segments) = 2
       /\ resp[w].body.wordCount = 2
       /\ Len(resp[w].body.fullText) = 5

\* C2: when the library call fails with message X and type Y, the result
\* has success false, error X, errorType Y and the videoId of the request.
C2_FailureResult ==
    \A w \in Workers :
       (Returned(w) /\ outcome[w].kind \in {"raises", "yields_then_raises"}) =>
          /\ result[w] = [success |-> FALSE, videoId |-> video_id[w],
                          error |-> outcome[w].exc.msg,
                          errorType |-> outcome[w].exc.type]
          /\ pc[w] = "done" => resp[w].body = result[w]

C2_Witness ==
    \E w \in Workers :
       /\ pc[w] = "done"
       /\ adapter[w] = "api"
       /\ outcome[w].kind = "raises"
       /\ resp[w].body.error = "Video unavailable"
       /\ resp[w].body.errorType = "TranscriptsDisabled"
       /\ resp[w].body.videoId = "xyz789"

\* C3: when the library could not be loaded, the normalization returns
\* success false with errorType "ImportError" and the fixed message, the
\* library is not called, and the process is not ended by the ImportError.
C3_UnavailableIsTypedFailure ==
    \A w \in Workers :
       ~installed =>
          /\ exc[w] # "ImportError"
          /\ fetchCalls[w] = 0
          /\ Returned(w) => result[w] = ImportErrorRecord
          /\ request[w].value \in VideoIds => pc[w] # "crashed"

\* a request whose identifier is missing or empty
MissingOrEmpty(req) ==
    req.kind = "absent" \/ (req.kind = "value" /\ req.value = "")

RequiredMessages ==
    {"videoId parameter required", "videoId required in request body",
     "Video ID required"}

\* C4: in every adapter a request whose identifier is missing or empty gets
\* a success:false payload saying the identifier is required, with status
\* 400 (exit code 1 for the script), and the library is not called for it.
C4_MissingIdentifierRejected ==
    \A w \in Workers :
       MissingOrEmpty(request[w]) =>
          /\ fetchCalls[w] = 0
          /\ pc[w] \notin {"call", "iter", "return"}
          /\ pc[w] = "done" =>
               /\ resp[w].sent
               /\ resp[w].body.success = FALSE
               /\ resp[w].body.error \in RequiredMessages
               /\ IF adapter[w] = "script" THEN resp[w].exit = 1
                                           ELSE resp[w].status = 400

\* C5: every request to an HTTP adapter, whatever its body or query, is
\* answered with a JSON body and status 200 exactly when the body has
\* success true, 400 otherwise; nothing else is produced.
C5_HttpStatusMatchesSuccess ==
    \A w \in Workers :
       (adapter[w] \in HttpAdapters /\ request[w] # NoRequest) =>
          /\ pc[w] # "crashed"
          /\ pc[w] = "done" =>
               /\ resp[w].sent
               /\ ContentTypeJson \in resp[w].headers
               /\ resp[w].status \in {200, 400}
               /\ resp[w].status = 200 <=> resp[w].body.success

\* C6: every response of an HTTP adapter carries Content-Type:
\* application/json and Access-Control-Allow-Origin: *.
C6_HeadersOnEveryResponse ==
    \A w \in Workers :
       (adapter[w] \in HttpAdapters /\ resp[w].sent) =>
          {ContentTypeJson, AllowAnyOrigin} \subseteq resp[w].headers

\* C7: within one request the library is called at most once; after a call
\* that failed no other call is made and the failure is what the request
\* returns.
C7_NoRetry ==
    \A w \in Workers :
       /\ fetchCalls[w] <= 1
       /\ pc[w] \in {"idle", "recv", "call"} => fetchCalls[w] = 0
       /\ (outcome[w].kind = "raises" \/
           (outcome[w].kind = "yields_then_raises" /\ pc[w] # "iter")) =>
             /\ fetchCalls[w] = 1
             /\ Returned(w)
             /\ result[w].success = FALSE

C7_Witness ==
    \E w \in Workers :
       /\ pc[w] = "done"
       /\ outcome[w].kind = "raises"
       /\ fetchCalls[w] = 1
       /\ resp[w].body.success = FALSE

\* the two terminal values of the normalization
IsTranscriptResult(r) ==
    DOMAIN r = {"success", "videoId", "segments", "fullText", "wordCount",
                "language", "source"} /\ r.success = TRUE

IsTranscriptError(r) ==
    {"success", "error", "errorType"} \subseteq DOMAIN r /\ r.success = FALSE

\* C8: in every entry point an invocation with a non-empty identifier ends
\* in a TranscriptResult or a TranscriptError whatever the library does
\* (not loadable, raising at the call, raising in the iteration); no failure
\* escapes as an uncaught exception.
C8_NeverCrashes ==
    \A w \in Workers :
       request[w].value \in VideoIds =>
          /\ pc[w] # "crashed"
          /\ exc[w] = ""
          /\ pc[w] = "done" =>
                (IsTranscriptResult(resp[w].body) \/ IsTranscriptError(resp[w].body))

\* the dict of the serverless adapter for an identifier, the state of the
\* library and the outcome of its call
CanonicalRecord(vid, o) ==
    IF ~installed THEN ImportErrorRecord
    ELSE IF o.kind = "returns"
         THEN api_success(vid, [i \in 1..Len(o.entries) |-> SegmentOf(o.entries[i])])
         ELSE api_error(vid, o.exc)

\* C9: the three adapters normalize alike: for the same identifier and the
\* same state and outcome of the library (entries, failure, not loadable)
\* each produces the same record.
C9_AdaptersAgree ==
    \A w \in Workers :
       request[w].value \in VideoIds =>
          /\ pc[w] # "crashed"
          /\ Returned(w) => result[w] = CanonicalRecord(video_id[w], outcome[w])

\* what worker w's invocation returns when it runs alone
RunAlone(w) ==
    IF adapter[w] = "api" /\ ~HAS_TRANSCRIPT_API[w] THEN ImportErrorRecord
    ELSE IF outcome[w].kind = "returns"
         THEN SuccessRecord(adapter[w], video_id[w],
                [i \in 1..Len(outcome[w].entries) |-> SegmentOf(outcome[w].entries[i])])
         ELSE ErrorRecord(adapter[w], video_id[w], outcome[w].exc)

\* C10 as stated: under every interleaving each invocation's response
\* carries its own videoId and is the response it produces when run alone.
C10_OwnVideoIdAlways ==
    \A w \in Workers :
       Returned(w) =>
          /\ "videoId" \in DOMAIN result[w]
          /\ result[w].videoId = video_id[w]
          /\ result[w] = RunAlone(w)

\* C10 amended: under every interleaving each invocation's response is the
\* response it produces when run alone, determined by its own identifier
\* and the outcome of its own call; it carries its own videoId except for
\* the not-loadable record of the serverless adapter, which has no videoId;
\* the segments it has collected are entries of its own transcript.
C10_Isolation ==
    \A w \in Workers :
       /\ pc[w] = "iter" =>
            segments[w] = [i \in 1..idx[w] |-> SegmentOf(outcome[w].entries[i])]
       /\ Returned(w) =>
            /\ result[w] = RunAlone(w)
            /\ result[w] # ImportErrorRecord =>
                 ("videoId" \in DOMAIN result[w] /\ result[w].videoId = video_id[w])
            /\ result[w] = ImportErrorRecord =>
                 (adapter[w] = "api" /\ ~installed /\ fetchCalls[w] = 0)
            /\ pc[w] = "done" => resp[w].body = result[w]

\* two invocations with different identifiers in flight at once, one done
\* with its success and the other in the middle of its loop
C10_Witness ==
    \E v, w \in Workers :
       /\ v # w
       /\ video_id[v] \in VideoIds /\ video_id[w] \in VideoIds
       /\ video_id[v] # video_id[w]
       /\ pc[v] = "iter" /\ idx[v] = 1 /\ Len(outcome[v].entries) = 2
       /\ pc[w] = "done" /\ resp[w].body.success = TRUE
       /\ Len(resp[w].body.segments) = 2

====
